---- MODULE Spec2Model ----
(***************************************************************************)
(* Model of main.py: the share-link validator, the text cleaner, the       *)
(* conversation extractor, the PDF renderer and the Streamlit script that  *)
(* ties them together.                                                     *)
(*                                                                         *)
(* A Python str is modelled as a sequence of one-character strings, so     *)
(* that trimming, matching, replacing and splitting are computed character *)
(* by character.  Characters outside ASCII are written by their code       *)
(* point ("U+201C"), and so is the backtick ("U+0060").                    *)
(***************************************************************************)
EXTENDS Integers, Sequences, FiniteSets, TLC

VARIABLES
    pc,                 \* position of the operation under study
    url,                \* argument of validate_chat_url / value of the share-link text input
    validated_url,      \* value returned by validate_chat_url
    text,               \* argument of clean_text_for_pdf
    cleaned,            \* values returned by successive applications of clean_text_for_pdf
    browser,            \* what the browser session does in a call of extract_conversation
    extraction,         \* outcome of the call of extract_conversation
    pdf_in,             \* the conversation given to create_pdf
    pdf_out,            \* outcome of the call of create_pdf
    conversation,       \* st.session_state.conversation
    extracted,          \* the conversation last returned by extract_conversation
    run                 \* what the last run of the script did and showed

vars == <<pc, url, validated_url, text, cleaned, browser, extraction, pdf_in, pdf_out,
          conversation, extracted, run>>

(***************************************************************************)
(* Bounds                                                                  *)
(***************************************************************************)
MaxTokenLen == 2
MaxTextLen == 4
MaxPasses == 2
MaxElems == 2
MaxTurns == 2
MaxMsgLen == 1

(***************************************************************************)
(* Python values and str helpers                                           *)
(***************************************************************************)
None == <<"None">>

SeqsUpTo(S, n) == UNION {[1..k -> S] : k \in 0..n}

\* values of the variables an operation does not use
NoBrowser == [fail |-> [step |-> "none", idx |-> 0], M |-> <<>>, R |-> <<>>]
NoExtraction == [result |-> None, errors |-> 0, calls |-> <<>>, get |-> None]
NoEdit == [idx |-> 0, field |-> "none", value |-> <<>>]
\* the first run of the script in a session: nothing clicked, nothing held
FirstRun == [kind |-> "load", reported |-> <<>>, launched |-> 0, offered |-> {},
             form |-> FALSE, raised |-> FALSE]
NoPdf == [buffer |-> None, raised |-> FALSE, errors |-> 0,
          include_metadata |-> TRUE, fail |-> [step |-> "none", idx |-> 0]]

\* characters str.strip() removes (those that occur in the modelled inputs)
Whitespace == {" ", "\n", "\t"}

RECURSIVE lstrip(_)
lstrip(s) ==
    IF s # <<>> /\ Head(s) \in Whitespace THEN lstrip(Tail(s)) ELSE s

RECURSIVE rstrip(_)
rstrip(s) ==
    IF s # <<>> /\ s[Len(s)] \in Whitespace
    THEN rstrip(SubSeq(s, 1, Len(s) - 1))
    ELSE s

strip(s) == rstrip(lstrip(s))

StartsWith(s, p) == Len(s) >= Len(p) /\ SubSeq(s, 1, Len(p)) = p

\* Python's  sub in s
Contains(s, sub) ==
    \E i \in 1..(Len(s) - Len(sub) + 1) : SubSeq(s, i, i + Len(sub) - 1) = sub

\* Python's  s.replace(old, new): every non-overlapping occurrence, left to
\* right; s itself when the first character of old does not occur in it
RECURSIVE replace(_, _, _)
replace(s, old, new) ==
    IF \A i \in 1..Len(s) : s[i] # old[1] THEN s
    ELSE IF StartsWith(s, old)
         THEN new \o replace(SubSeq(s, Len(old) + 1, Len(s)), old, new)
         ELSE <<Head(s)>> \o replace(Tail(s), old, new)

AppUnused == conversation = None /\ extracted = None /\ run = FirstRun

(***************************************************************************)
(* validate_chat_url                                                       *)
(***************************************************************************)
HTTP == <<"h", "t", "t", "p">>
HTTPS == <<"h", "t", "t", "p", "s">>
COLON_SLASHES == <<":", "/", "/">>
CHAT_OPENAI_COM == <<"c", "h", "a", "t", ".", "o", "p", "e", "n", "a", "i", ".", "c", "o", "m">>
CHATGPT_COM == <<"c", "h", "a", "t", "g", "p", "t", ".", "c", "o", "m">>
SHARE == <<"/", "s", "h", "a", "r", "e", "/">>

Lower == {"a", "b", "c", "d", "e", "f", "g", "h", "i", "j", "k", "l", "m",
          "n", "o", "p", "q", "r", "s", "t", "u", "v", "w", "x", "y", "z"}
Upper == {"A", "B", "C", "D", "E", "F", "G", "H", "I", "J", "K", "L", "M",
          "N", "O", "P", "Q", "R", "S", "T", "U", "V", "W", "X", "Y", "Z"}
Digit == {"0", "1", "2", "3", "4", "5", "6", "7", "8", "9"}
\* the character class [a-zA-Z0-9-]
TokenChar == Lower \cup Upper \cup Digit \cup {"-"}

\* re.match(r'^https?:\/\/<host>\/share\/[a-zA-Z0-9-]+$', s): "s" is optional,
\* the dots of the host are literal, and $ matches at the end of the string
\* or just before a newline that ends it.
re_match(host, s) ==
    \E scheme \in {HTTP, HTTPS} :
        LET prefix == scheme \o COLON_SLASHES \o host \o SHARE
            rest == SubSeq(s, Len(prefix) + 1, Len(s))
            token == IF rest # <<>> /\ rest[Len(rest)] = "\n"
                     THEN SubSeq(rest, 1, Len(rest) - 1)
                     ELSE rest
        IN  /\ StartsWith(s, prefix)
            /\ token # <<>>
            /\ \A i \in 1..Len(token) : token[i] \in TokenChar

patterns == <<CHAT_OPENAI_COM, CHATGPT_COM>>

\* validate_chat_url with the host rewrite of line 42 left out
validate_chat_url_no_rewrite(raw) ==
    LET u == strip(raw)
    IN  IF \E i \in 1..Len(patterns) : re_match(patterns[i], u)
        THEN u
        ELSE None

validate_chat_url(raw) ==
    LET u == strip(raw)
    IN  IF \E i \in 1..Len(patterns) : re_match(patterns[i], u)
        THEN IF Contains(u, CHATGPT_COM)
             THEN replace(u, CHATGPT_COM, CHAT_OPENAI_COM)
             ELSE u
        ELSE None

(***************************************************************************)
(* Inputs of the validator: a link assembled from a leading blank, a       *)
(* scheme, a host, a path, a token and a trailing blank, each of which may *)
(* be well-formed or not.                                                  *)
(***************************************************************************)
Schemes == {HTTPS \o COLON_SLASHES, HTTP \o COLON_SLASHES,
            <<"f", "t", "p">> \o COLON_SLASHES, <<>>}
Hosts == {CHAT_OPENAI_COM, CHATGPT_COM,
          <<"c", "h", "a", "t", "-", "o", "p", "e", "n", "a", "i", ".", "c", "o", "m">>,
          <<>>}
Paths == {SHARE, <<"/", "s", "/">>, <<>>}
TokenAlphabet == {"a", "Z", "7", "-", "_", "/"}
Tokens == SeqsUpTo(TokenAlphabet, MaxTokenLen)
Blanks == {<<>>, <<" ">>, <<"\n">>}

UrlInputs ==
    {lead \o scheme \o host \o path \o token \o trail :
        lead \in {<<>>, <<" ">>}, scheme \in Schemes, host \in Hosts,
        path \in Paths, token \in Tokens, trail \in Blanks}

InitValidate ==
    /\ pc = "input"
    /\ url \in UrlInputs
    /\ validated_url = None
    /\ text = <<>>
    /\ cleaned = <<>>
    /\ browser = NoBrowser
    /\ extraction = NoExtraction
    /\ pdf_in = <<>>
    /\ pdf_out = NoPdf
    /\ AppUnused

Validate ==
    /\ pc = "input"
    /\ validated_url' = validate_chat_url(url)
    /\ pc' = "returned"
    /\ UNCHANGED <<url, text, cleaned, browser, extraction, pdf_in, pdf_out>>
    /\ UNCHANGED <<conversation, extracted, run>>

NextValidate == Validate

SpecValidate == InitValidate /\ [][NextValidate]_vars

(***************************************************************************)
(* Properties of the validator                                             *)
(***************************************************************************)
ShareLink(scheme, host, token) == scheme \o COLON_SLASHES \o host \o SHARE \o token

IsToken(token) ==
    token # <<>> /\ \A i \in 1..Len(token) : token[i] \in TokenChar

\* the two shapes the specification accepts: https only
AcceptedShape(u) ==
    \E host \in {CHAT_OPENAI_COM, CHATGPT_COM} :
        /\ StartsWith(u, ShareLink(HTTPS, host, <<>>))
        /\ IsToken(SubSeq(u, Len(ShareLink(HTTPS, host, <<>>)) + 1, Len(u)))

\* C1: every input that, once trimmed, is not https://chat.openai.com/share/<token>
\* or https://chatgpt.com/share/<token> is answered with None.
C1_RejectsAllButHttpsShapes ==
    (pc = "returned" /\ ~AcceptedShape(strip(url))) => validated_url = None

\* C2: a share link on either host (trimmed) is returned with the same scheme,
\* path and token and the host chat.openai.com; a chat.openai.com link is thus
\* returned unchanged, and what is returned is a chat.openai.com share link.
C2_HostRewritten ==
    pc = "returned" =>
        \A scheme \in {HTTP, HTTPS}, host \in {CHAT_OPENAI_COM, CHATGPT_COM} :
            LET prefix == ShareLink(scheme, host, <<>>)
                token == SubSeq(strip(url), Len(prefix) + 1, Len(strip(url)))
            IN  (StartsWith(strip(url), prefix) /\ IsToken(token)) =>
                    /\ validated_url = ShareLink(scheme, CHAT_OPENAI_COM, token)
                    /\ host = CHAT_OPENAI_COM => validated_url = strip(url)

C2_Witness ==
    /\ pc = "returned"
    /\ url = <<" ">> \o ShareLink(HTTPS, CHATGPT_COM, <<"a", "-">>) \o <<"\n">>
    /\ validated_url = ShareLink(HTTPS, CHAT_OPENAI_COM, <<"a", "-">>)

(***************************************************************************)
(* clean_text_for_pdf                                                      *)
(***************************************************************************)
Max(S) == CHOOSE x \in S : \A y \in S : y <= x

AMP == <<"&", "a", "m", "p", ";">>
LT == <<"&", "l", "t", ";">>
GT == <<"&", "g", "t", ";">>

\* html.entities.html5 restricted to the names spelled with the letters
\* a, g, l, m, p, t: the letters of the model's inputs and of the escapes
\* that clean_text_for_pdf itself writes.
html5 ==
    (<<"a", "m", "p">> :> <<"&">>) @@ (<<"a", "m", "p", ";">> :> <<"&">>) @@
    (<<"l", "t">> :> <<"<">>) @@ (<<"l", "t", ";">> :> <<"<">>) @@
    (<<"g", "t">> :> <<">">>) @@ (<<"g", "t", ";">> :> <<">">>) @@
    (<<"a", "m", "a", "l", "g", ";">> :> <<"U+2A3F">>) @@
    (<<"a", "p", ";">> :> <<"U+2248">>) @@
    (<<"g", "a", "m", "m", "a", ";">> :> <<"U+03B3">>) @@
    (<<"g", "a", "p", ";">> :> <<"U+2A86">>) @@
    (<<"g", "g", ";">> :> <<"U+226B">>) @@
    (<<"g", "g", "g", ";">> :> <<"U+22D9">>) @@
    (<<"g", "l", ";">> :> <<"U+2277">>) @@
    (<<"g", "l", "a", ";">> :> <<"U+2AA5">>) @@
    (<<"l", "a", "p", ";">> :> <<"U+2A85">>) @@
    (<<"l", "a", "t", ";">> :> <<"U+2AAB">>) @@
    (<<"l", "g", ";">> :> <<"U+2276">>) @@
    (<<"l", "l", ";">> :> <<"U+226A">>) @@
    (<<"m", "a", "l", "t", ";">> :> <<"U+2720">>) @@
    (<<"m", "a", "p", ";">> :> <<"U+21A6">>) @@
    (<<"m", "p", ";">> :> <<"U+2213">>) @@
    (<<"p", "m", ";">> :> <<"U+00B1">>)

\* characters that end an entity name: the class [^\t\n\f <&#;] complemented
NonNameChar == {"\t", "\n", "\f", " ", "<", "&", "#", ";"}

RECURSIVE NameRun(_, _)
NameRun(s, n) ==
    IF s = <<>> \/ n = 0 \/ Head(s) \in NonNameChar
    THEN <<>>
    ELSE <<Head(s)>> \o NameRun(Tail(s), n - 1)

\* what follows "&" and is taken as a character reference: up to 32 name
\* characters and the ";" after them if there is one; <<>> if there is no
\* name.  Numeric references (&#...;) are not modelled: no modelled text
\* holds a "#".
charref(s) ==
    LET name == NameRun(s, 32)
        rest == SubSeq(s, Len(name) + 1, Len(s))
    IN  IF name = <<>> THEN <<>>
        ELSE IF rest # <<>> /\ Head(rest) = ";" THEN Append(name, ";")
        ELSE name

\* html._replace_charref: the name itself, else its longest proper prefix of
\* two characters or more that is an entity, else the text unchanged
replace_charref(s) ==
    IF s \in DOMAIN html5 THEN html5[s]
    ELSE LET xs == {x \in 2..(Len(s) - 1) : SubSeq(s, 1, x) \in DOMAIN html5}
         IN  IF xs # {}
             THEN html5[SubSeq(s, 1, Max(xs))] \o SubSeq(s, Max(xs) + 1, Len(s))
             ELSE <<"&">> \o s

\* html.unescape: one pass, left to right; s itself when it holds no "&"
RECURSIVE html_unescape(_)
html_unescape(s) ==
    IF \A i \in 1..Len(s) : s[i] # "&" THEN s
    ELSE IF Head(s) = "&" /\ charref(Tail(s)) # <<>>
         THEN replace_charref(charref(Tail(s)))
                  \o html_unescape(SubSeq(s, Len(charref(Tail(s))) + 2, Len(s)))
         ELSE <<Head(s)>> \o html_unescape(Tail(s))

RECURSIVE WhitespaceRun(_)
WhitespaceRun(s) ==
    IF s = <<>> \/ Head(s) \notin Whitespace
    THEN <<>>
    ELSE <<Head(s)>> \o WhitespaceRun(Tail(s))

\* re.sub(r'\n\s*\n', '\n', s): leftmost matches, \s* greedy
RECURSIVE re_sub_blank_lines(_)
re_sub_blank_lines(s) ==
    IF \A i \in 1..Len(s) : s[i] # "\n" THEN s
    ELSE IF Head(s) = "\n"
         THEN LET blanks == WhitespaceRun(Tail(s))
                  ends == {j \in 1..Len(blanks) : blanks[j] = "\n"}
              IN  IF ends # {}
                  THEN <<"\n">> \o re_sub_blank_lines(SubSeq(s, Max(ends) + 2, Len(s)))
                  ELSE <<"\n">> \o re_sub_blank_lines(Tail(s))
         ELSE <<Head(s)>> \o re_sub_blank_lines(Tail(s))

clean_text_for_pdf(t) ==
    LET t18 == html_unescape(t)
        t19 == replace(t18, <<"&">>, AMP)
        t20 == replace(t19, <<"<">>, LT)
        t21 == replace(t20, <<">">>, GT)
        t22 == replace(t21, <<"\"">>, <<"'">>)
        t23 == replace(t22, <<"U+2019">>, <<"'">>)
        t24 == replace(t23, <<"U+2018">>, <<"'">>)
        t25 == replace(t24, <<"U+201C">>, <<"\"">>)
        t26 == replace(t25, <<"U+201D">>, <<"\"">>)
        t27 == replace(t26, <<"U+0060", "U+0060", "U+0060">>, <<>>)
    IN  re_sub_blank_lines(t27)

CleanAlphabet == {"&", "l", "t", ";", "<", "\"", "U+201C", "U+2019", "U+0060", "\n", " "}

InitClean ==
    /\ pc = "input"
    /\ text \in SeqsUpTo(CleanAlphabet, MaxTextLen)
    /\ cleaned = <<>>
    /\ url = <<>>
    /\ validated_url = None
    /\ browser = NoBrowser
    /\ extraction = NoExtraction
    /\ pdf_in = <<>>
    /\ pdf_out = NoPdf
    /\ AppUnused

\* one more application of clean_text_for_pdf, to the text or to the last result
Clean ==
    /\ Len(cleaned) < MaxPasses
    /\ cleaned' = Append(cleaned,
                         clean_text_for_pdf(IF cleaned = <<>> THEN text
                                            ELSE cleaned[Len(cleaned)]))
    /\ pc' = "returned"
    /\ UNCHANGED <<url, validated_url, text, browser, extraction, pdf_in, pdf_out>>
    /\ UNCHANGED <<conversation, extracted, run>>

NextClean == Clean

SpecClean == InitClean /\ [][NextClean]_vars

\* C3: cleaning is idempotent: cleaning a cleaned text returns it unchanged.
C3_CleanIdempotent ==
    Len(cleaned) >= 2 => cleaned[2] = cleaned[1]

(***************************************************************************)
(* extract_conversation                                                    *)
(*                                                                         *)
(* browser.fail names the call of the try block that raises, if any:       *)
(* "Chrome" (line 129), "get" (132), "until" (136, which includes the      *)
(* timeout), "find_elements" (139), or "text" with the index of the        *)
(* element whose text cannot be read (144-145).  browser.M and browser.R   *)
(* are the texts of the elements the two selectors find.                   *)
(***************************************************************************)
UNKNOWN == <<"U", "n", "k", "n", "o", "w", "n">>

\* line 144 with an empty label where the code puts "Unknown"
role_at_no_placeholder(idx, R) == IF idx < Len(R) THEN R[idx + 1] ELSE <<>>

\* line 144; idx counts from 0 as enumerate does
role_at(idx, R) == IF idx < Len(R) THEN R[idx + 1] ELSE UNKNOWN

\* lines 142-146: the loop over conversation_elements
RECURSIVE scrape_loop(_, _, _, _)
scrape_loop(idx, M, R, conv) ==
    IF idx >= Len(M) THEN conv
    ELSE scrape_loop(idx + 1, M, R,
                     Append(conv, <<role_at(idx, R), strip(M[idx + 1]), FALSE>>))

\* does the try block raise?
ExtractRaises(b) ==
    \/ b.fail.step \in {"Chrome", "get", "until", "find_elements"}
    \/ b.fail.step = "text" /\ b.fail.idx \in 1..Len(b.M)

\* the calls the try block makes, up to and including the one that raises;
\* "Chrome" stands for a driver that was constructed and bound
TryCalls(b) ==
    CASE b.fail.step = "Chrome" -> <<>>
      [] b.fail.step = "get" -> <<"Chrome", "get">>
      [] b.fail.step = "until" -> <<"Chrome", "get", "until">>
      [] b.fail.step = "find_elements" ->
            <<"Chrome", "get", "until", "sleep", "find_elements">>
      [] OTHER ->
            <<"Chrome", "get", "until", "sleep", "find_elements", "find_elements">>

\* the finally clause of lines 154-156 with the quit only on the way out of
\* a try block that did not raise
finally_quit_on_success(b) ==
    IF b.fail.step # "Chrome" /\ ~ExtractRaises(b) THEN <<"quit">> ELSE <<>>

\* lines 154-156: 'driver' is a local exactly if webdriver.Chrome returned
finally_quit(b) == IF b.fail.step # "Chrome" THEN <<"quit">> ELSE <<>>

extract_conversation(link, b) ==
    [result |-> IF ExtractRaises(b) THEN None ELSE scrape_loop(0, b.M, b.R, <<>>),
     errors |-> IF ExtractRaises(b) THEN 1 ELSE 0,
     calls  |-> TryCalls(b) \o finally_quit(b),
     get    |-> IF b.fail.step = "Chrome" THEN None ELSE link]

USER == <<"U", "s", "e", "r">>
CHATGPT == <<"C", "h", "a", "t", "G", "P", "T">>
HI == <<"H", "i">>
RoleTexts == {USER, CHATGPT}
MsgTexts == {HI, <<" ", "H", "i", "\n">>, <<>>}

ExtractFails ==
    {[step |-> st, idx |-> 0] : st \in {"none", "Chrome", "get", "until", "find_elements"}}
        \cup {[step |-> "text", idx |-> k] : k \in 1..MaxElems}

Browsers ==
    [fail : ExtractFails, M : SeqsUpTo(MsgTexts, MaxElems), R : SeqsUpTo(RoleTexts, MaxElems)]

InitExtract ==
    /\ pc = "input"
    /\ url = ShareLink(HTTPS, CHAT_OPENAI_COM, <<"a">>)
    /\ browser \in Browsers
    /\ extraction = NoExtraction
    /\ validated_url = None
    /\ text = <<>>
    /\ cleaned = <<>>
    /\ pdf_in = <<>>
    /\ pdf_out = NoPdf
    /\ AppUnused

Extract ==
    /\ pc = "input"
    /\ extraction' = extract_conversation(url, browser)
    /\ pc' = "returned"
    /\ UNCHANGED <<url, validated_url, text, cleaned, browser, pdf_in, pdf_out>>
    /\ UNCHANGED <<conversation, extracted, run>>

NextExtract == Extract

SpecExtract == InitExtract /\ [][NextExtract]_vars

Count(calls, c) == Cardinality({i \in 1..Len(calls) : calls[i] = c})

\* C5: once the browser session is acquired, every way out of
\* extract_conversation quits it exactly once, as the last call; a failure
\* returns None; a failed acquisition quits nothing and returns None.
C5_TeardownOnEveryPath ==
    pc = "returned" =>
        /\ browser.fail.step # "Chrome" =>
              /\ Count(extraction.calls, "quit") = 1
              /\ extraction.calls[Len(extraction.calls)] = "quit"
        /\ ExtractRaises(browser) => extraction.result = None
        /\ browser.fail.step = "Chrome" =>
              /\ Count(extraction.calls, "quit") = 0
              /\ extraction.result = None

\* a navigation that raises after the session was acquired
C5_Witness ==
    /\ pc = "returned"
    /\ browser.fail.step = "get"
    /\ extraction.calls = <<"Chrome", "get", "quit">>
    /\ extraction.result = None

\* C9: a successful extraction returns one turn per message element, in order:
\* the role label at the same index or "Unknown" when there is none, the
\* trimmed message text, and edited = FALSE; surplus role labels are ignored.
C9_PositionalPairing ==
    (pc = "returned" /\ ~ExtractRaises(browser)) =>
        /\ Len(extraction.result) = Len(browser.M)
        /\ \A i \in 1..Len(browser.M) :
              /\ extraction.result[i][1] =
                    (IF i <= Len(browser.R) THEN browser.R[i] ELSE UNKNOWN)
              /\ extraction.result[i][2] = strip(browser.M[i])
              /\ extraction.result[i][3] = FALSE

\* two messages, one role label: the second turn gets the placeholder
C9_Witness ==
    /\ pc = "returned"
    /\ browser.M = <<<<" ", "H", "i", "\n">>, HI>>
    /\ browser.R = <<CHATGPT>>
    /\ extraction.result = <<<<CHATGPT, HI, FALSE>>, <<UNKNOWN, HI, FALSE>>>>

(***************************************************************************)
(* create_pdf                                                              *)
(*                                                                         *)
(* The document is modelled by its story, the list of flowables handed to  *)
(* doc.build.  fail names what raises, if anything: "turn" with the index  *)
(* of the turn whose cleaning or Paragraph construction raises (inside the *)
(* try block of lines 89-108), or "build" for doc.build (line 110).        *)
(***************************************************************************)
Paragraph(t, style) == [flowable |-> "Paragraph", text |-> t, style |-> style]
Spacer == [flowable |-> "Spacer", text |-> <<>>, style |-> "1x12"]

TITLE == <<"C", "h", "a", "t", "G", "P", "T", " ",
           "C", "o", "n", "v", "e", "r", "s", "a", "t", "i", "o", "n">>
\* f"Extracted on: {time.strftime(...)}", the time of the call left symbolic
METADATA == <<"E", "x", "t", "r", "a", "c", "t", "e", "d", " ", "o", "n", ":", " ",
              "%Y-%m-%d %H:%M:%S">>
EDITED == <<" ", "(", "E", "d", "i", "t", "e", "d", ")">>

\* Python's  s.split('\n')
RECURSIVE split_lines(_)
split_lines(s) ==
    IF \E i \in 1..Len(s) : s[i] = "\n"
    THEN LET i == CHOOSE k \in 1..Len(s) :
                      s[k] = "\n" /\ \A j \in 1..(k - 1) : s[j] # "\n"
         IN  <<SubSeq(s, 1, i - 1)>> \o split_lines(SubSeq(s, i + 1, Len(s)))
    ELSE <<s>>

NonBlank(para) == strip(para) # <<>>

\* lines 99-102 without the test of line 101
content_blocks_unfiltered(clean_message) ==
    LET paragraphs == split_lines(clean_message)
    IN  [i \in 1..Len(paragraphs) |-> Paragraph(strip(paragraphs[i]), "CustomContent")]

\* lines 99-102: a Paragraph for each line that is not blank, trimmed
content_blocks(clean_message) ==
    LET paragraphs == SelectSeq(split_lines(clean_message), NonBlank)
    IN  [i \in 1..Len(paragraphs) |-> Paragraph(strip(paragraphs[i]), "CustomContent")]

\* lines 91-97
heading(turn) ==
    LET clean_role == clean_text_for_pdf(turn[1])
    IN  Paragraph(IF turn[3] THEN clean_role \o EDITED ELSE clean_role, "CustomHeading")

\* lines 90-104: the body of the loop for one turn
turn_flowables(turn) ==
    <<heading(turn)>> \o content_blocks(clean_text_for_pdf(turn[2])) \o <<Spacer>>

RECURSIVE turns_story(_)
turns_story(conv) ==
    IF conv = <<>> THEN <<>>
    ELSE turn_flowables(Head(conv)) \o turns_story(Tail(conv))

\* lines 80-87
story_head(include_metadata) ==
    <<Paragraph(TITLE, "CustomTitle")>>
        \o (IF include_metadata THEN <<Paragraph(METADATA, "MetadataStyle")>> ELSE <<>>)
        \o <<Spacer>>

\* does the loop of lines 90-104 raise?
LoopRaises(conv, fail) == fail.step = "turn" /\ fail.idx \in 1..Len(conv)

create_pdf(conv, include_metadata, fail) ==
    IF LoopRaises(conv, fail)
    THEN \* lines 106-108: st.error, return None
         [buffer |-> None, raised |-> FALSE, errors |-> 1,
          include_metadata |-> include_metadata, fail |-> fail]
    ELSE IF fail.step = "build"
    THEN \* line 110 is outside the try block: the exception leaves create_pdf
         [buffer |-> None, raised |-> TRUE, errors |-> 0,
          include_metadata |-> include_metadata, fail |-> fail]
    ELSE [buffer |-> story_head(include_metadata) \o turns_story(conv),
          raised |-> FALSE, errors |-> 0,
          include_metadata |-> include_metadata, fail |-> fail]

HELLO_WORLD == <<"H", "e", "l", "l", "o", "\n", "\n", "W", "o", "r", "l", "d">>
A_AND_B == <<"A", "&", "B">>
PdfRoles == {USER, A_AND_B}
PdfMessages ==
    SeqsUpTo({"a", "\n"}, MaxMsgLen)
        \cup {HELLO_WORLD, <<" ", "a", " ", "\n", " ", "\n", "<", "b", ">">>}
PdfTurns == {<<r, m, e>> : r \in PdfRoles, m \in PdfMessages, e \in BOOLEAN}

PdfFails ==
    {[step |-> st, idx |-> 0] : st \in {"none", "build"}}
        \cup {[step |-> "turn", idx |-> k] : k \in 1..MaxTurns}

InitPdf ==
    /\ pc = "input"
    /\ pdf_in \in SeqsUpTo(PdfTurns, MaxTurns)
    /\ pdf_out = NoPdf
    /\ url = <<>>
    /\ validated_url = None
    /\ text = <<>>
    /\ cleaned = <<>>
    /\ browser = NoBrowser
    /\ extraction = NoExtraction
    /\ AppUnused

CreatePdf ==
    /\ pc = "input"
    /\ \E include_metadata \in BOOLEAN, fail \in PdfFails :
          pdf_out' = create_pdf(pdf_in, include_metadata, fail)
    /\ pc' = "returned"
    /\ UNCHANGED <<url, validated_url, text, cleaned, browser, extraction, pdf_in>>
    /\ UNCHANGED <<conversation, extracted, run>>

NextPdf == CreatePdf

SpecPdf == InitPdf /\ [][NextPdf]_vars

(***************************************************************************)
(* Properties of the renderer                                              *)
(***************************************************************************)
\* C7: whatever fails inside create_pdf, while a turn is laid out or while
\* the document is built, is reported once and answered with None; nothing
\* is raised to the caller.
C7_FailureReturnsNone ==
    (pc = "returned" /\ (LoopRaises(pdf_in, pdf_out.fail) \/ pdf_out.fail.step = "build")) =>
        /\ ~pdf_out.raised
        /\ pdf_out.buffer = None
        /\ pdf_out.errors = 1

KthSmallest(S, k) == CHOOSE x \in S : Cardinality({y \in S : y <= x}) = k

\* the lines of a text, told by the positions of its line breaks
Breaks(cm) == {0} \cup {i \in 1..Len(cm) : cm[i] = "\n"} \cup {Len(cm) + 1}
LineFrom(cm, p) ==
    SubSeq(cm, p + 1, KthSmallest({b \in Breaks(cm) : b > p}, 1) - 1)
NonBlankStarts(cm) ==
    {p \in Breaks(cm) \ {Len(cm) + 1} :
        \E i \in 1..Len(LineFrom(cm, p)) : LineFrom(cm, p)[i] \notin Whitespace}

\* the section of a turn: heading, one block per non-blank line, spacer
IsTurnSection(section, turn) ==
    LET cm == clean_text_for_pdf(turn[2])
        n == Cardinality(NonBlankStarts(cm))
    IN  /\ Len(section) = n + 2
        /\ section[1].flowable = "Paragraph"
        /\ section[1].style = "CustomHeading"
        /\ section[1].text =
              (IF turn[3] THEN clean_text_for_pdf(turn[1]) \o EDITED
               ELSE clean_text_for_pdf(turn[1]))
        /\ \A k \in 1..n :
              /\ section[k + 1].flowable = "Paragraph"
              /\ section[k + 1].style = "CustomContent"
              /\ section[k + 1].text = strip(LineFrom(cm, KthSmallest(NonBlankStarts(cm), k)))
        /\ section[n + 2] = Spacer

\* C8: after the title block the story holds the turns' sections in the order
\* of the conversation, and each section is the heading (cleaned role, with
\* " (Edited)" exactly when the turn is edited), one block per line of the
\* cleaned message that is not blank, and one spacer.
C8_SectionsInOrder ==
    (pc = "returned" /\ pdf_out.buffer # None) =>
        LET head == IF pdf_out.include_metadata THEN 3 ELSE 2
            body == SubSeq(pdf_out.buffer, head + 1, Len(pdf_out.buffer))
            ends == {i \in 1..Len(body) : body[i] = Spacer}
        IN  /\ Cardinality(ends) = Len(pdf_in)
            /\ pdf_in = <<>> => body = <<>>
            /\ \A k \in 1..Len(pdf_in) :
                  IsTurnSection(
                      SubSeq(body,
                             IF k = 1 THEN 1 ELSE KthSmallest(ends, k - 1) + 1,
                             KthSmallest(ends, k)),
                      pdf_in[k])
            /\ pdf_in # <<>> => KthSmallest(ends, Len(pdf_in)) = Len(body)

\* an edited turn whose message is "Hello\n\nWorld", then an unedited one
C8_Witness ==
    /\ pc = "returned"
    /\ pdf_in = <<<<USER, HELLO_WORLD, TRUE>>, <<A_AND_B, <<"a">>, FALSE>>>>
    /\ pdf_out.buffer =
          <<Paragraph(TITLE, "CustomTitle"), Spacer,
            Paragraph(USER \o EDITED, "CustomHeading"),
            Paragraph(<<"H", "e", "l", "l", "o">>, "CustomContent"),
            Paragraph(<<"W", "o", "r", "l", "d">>, "CustomContent"),
            Spacer,
            Paragraph(<<"A">> \o AMP \o <<"B">>, "CustomHeading"),
            Paragraph(<<"a">>, "CustomContent"),
            Spacer>>

(***************************************************************************)
(* The script (lines 188-244).  Streamlit runs it from top to bottom once  *)
(* per interaction: a click on "Extract Conversation", a change of one of  *)
(* the edit widgets, or anything else that reruns it (a download, a new    *)
(* text in the link field).  A widget returns what the user last entered   *)
(* in it and, if nothing was entered since it was drawn with its current   *)
(* default, that default.                                                  *)
(***************************************************************************)
Truthy(conv) == conv # None /\ conv # <<>>

\* line 204 keeping the held conversation when the extractor returns None
held_after_extract_keep(held, result) == IF result = None THEN held ELSE result

\* line 204: st.session_state.conversation = extract_conversation(validated_url)
held_after_extract(held, result) == result

\* lines 225-228: the values the widgets of turn i return
widget_values(conv, edit) ==
    [i \in 1..Len(conv) |->
        <<IF edit.idx = i /\ edit.field = "role" THEN edit.value ELSE conv[i][1],
          IF edit.idx = i /\ edit.field = "message" THEN edit.value ELSE conv[i][2]>>]

\* lines 219-231: is_edited compares with the conversation held now
edit_step(conv, edit) ==
    [i \in 1..Len(conv) |->
        <<widget_values(conv, edit)[i][1],
          widget_values(conv, edit)[i][2],
          \/ widget_values(conv, edit)[i][1] # conv[i][1]
          \/ widget_values(conv, edit)[i][2] # conv[i][2]>>]

Reported(kind, n) == [i \in 1..n |-> kind]

\* Let(x, F) is F(x) with x evaluated once
Let(x, F(_)) == CHOOSE r \in {F(y) : y \in {x}} : TRUE

\* lines 195-214: the button handler.  held is the conversation in session
\* state, clicked the value of st.button, u the text of the link field.
handler(held, clicked, u, b, fail1) ==
    IF ~clicked
    THEN [conversation |-> held, kind |-> "rerun", validated |-> None,
          extraction |-> NoExtraction, reported |-> <<>>, offered |-> {},
          raised |-> FALSE]
    ELSE IF u = <<>>
    THEN [conversation |-> held, kind |-> "extract_empty", validated |-> None,
          extraction |-> NoExtraction, reported |-> <<"warning">>, offered |-> {},
          raised |-> FALSE]
    ELSE Let(validate_chat_url(u), LAMBDA v :
         IF v = None
         THEN [conversation |-> held, kind |-> "extract_invalid", validated |-> None,
               extraction |-> NoExtraction, reported |-> <<"error", "info">>,
               offered |-> {}, raised |-> FALSE]
         ELSE Let(extract_conversation(v, b), LAMBDA e :
              Let(held_after_extract(held, e.result), LAMBDA now :
              Let(IF Truthy(now) THEN create_pdf(now, TRUE, fail1) ELSE NoPdf, LAMBDA pdf :
              [conversation |-> now, kind |-> "extract_valid",
               validated |-> v, extraction |-> e,
               reported |-> Reported("error", e.errors + pdf.errors),
               offered |-> IF Truthy(now) /\ ~pdf.raised /\ pdf.buffer # None
                           THEN {"original"} ELSE {},
               raised |-> pdf.raised]))))

\* the whole run: the handler, then lines 217-244 unless an exception ended
\* the run before; shown tells whether the edit form is drawn
script(held, clicked, u, b, fail1, edit, fail2) ==
    Let(handler(held, clicked, u, b, fail1), LAMBDA h :
    Let(~h.raised /\ Truthy(h.conversation), LAMBDA shown :
    Let(IF shown THEN edit_step(h.conversation, edit) ELSE h.conversation,
        LAMBDA edited_conversation :
    Let(IF shown THEN create_pdf(edited_conversation, TRUE, fail2) ELSE NoPdf,
        LAMBDA pdf :
        [conversation |-> edited_conversation,
         validated |-> h.validated,
         extraction |-> h.extraction,
         run |-> [kind |-> IF h.kind = "rerun" /\ edit # NoEdit THEN "edit" ELSE h.kind,
                  reported |-> h.reported \o Reported("error", pdf.errors),
                  launched |-> Count(h.extraction.calls, "Chrome"),
                  offered |-> h.offered \cup
                              (IF shown /\ ~pdf.raised /\ pdf.buffer # None
                               THEN {"edited"} ELSE {}),
                  form |-> shown,
                  raised |-> h.raised \/ pdf.raised]]))))

ME == <<"M", "e">>
BYE == <<"B", "y", "e">>
AppUrls == {<<>>, <<"x">>, <<" ">> \o ShareLink(HTTPS, CHATGPT_COM, <<"a">>)}
\* sessions that succeed, with one role label for all the messages, and two
\* that fail: at webdriver.Chrome and at get
AppBrowsers ==
    [fail : {[step |-> "none", idx |-> 0]},
     M : SeqsUpTo({HI}, MaxElems), R : {<<USER>>}]
        \cup {[fail |-> [step |-> st, idx |-> 0], M |-> <<>>, R |-> <<>>] :
                 st \in {"Chrome", "get"}}
AppPdfFails == {[step |-> "none", idx |-> 0], [step |-> "turn", idx |-> 1],
                [step |-> "build", idx |-> 0]}
\* what the user may enter: a new role, a new message or the message "Hi" again
Edits(conv) ==
    {[idx |-> i, field |-> "role", value |-> ME] : i \in 1..Len(conv)}
        \cup {[idx |-> i, field |-> "message", value |-> v] :
                 i \in 1..Len(conv), v \in {HI, BYE}}

\* the state after the first run of a session (line 190)
Init ==
    /\ pc = "idle"
    /\ url = <<>>
    /\ validated_url = None
    /\ conversation = None
    /\ extracted = None
    /\ run = FirstRun
    /\ extraction = NoExtraction
    /\ browser = NoBrowser
    /\ text = <<>>
    /\ cleaned = <<>>
    /\ pdf_in = <<>>
    /\ pdf_out = NoPdf

Apply(r) ==
    /\ conversation' = r.conversation
    /\ validated_url' = r.validated
    /\ extraction' = r.extraction
    /\ run' = r.run
    /\ extracted' = IF r.run.kind = "extract_valid" /\ r.extraction.result # None
                    THEN r.extraction.result ELSE extracted
    /\ UNCHANGED <<pc, text, cleaned, pdf_in, pdf_out>>

\* a click on the button with the link field empty
ExtractEmpty ==
    /\ url' = <<>>
    /\ browser' = NoBrowser
    /\ \E fail2 \in AppPdfFails :
          /\ ~Truthy(conversation) => fail2 = NoPdf.fail
          /\ \E r \in {script(conversation, TRUE, url', NoBrowser, NoPdf.fail, NoEdit, fail2)} :
                Apply(r)

\* a click on the button with a link the validator rejects
ExtractInvalid ==
    /\ \E u \in AppUrls : u # <<>> /\ validate_chat_url(u) = None /\ url' = u
    /\ browser' = NoBrowser
    /\ \E fail2 \in AppPdfFails :
          /\ ~Truthy(conversation) => fail2 = NoPdf.fail
          /\ \E r \in {script(conversation, TRUE, url', NoBrowser, NoPdf.fail, NoEdit, fail2)} :
                Apply(r)

\* a click on the button with a link the validator accepts
ExtractValid ==
    /\ \E u \in AppUrls : validate_chat_url(u) # None /\ url' = u
    /\ \E b \in AppBrowsers, fail1 \in AppPdfFails, fail2 \in AppPdfFails :
          \* a failure is drawn only for a call of create_pdf that the run makes
          /\ (ExtractRaises(b) \/ b.M = <<>>) => (fail1 = NoPdf.fail /\ fail2 = NoPdf.fail)
          /\ fail1.step = "build" => fail2 = NoPdf.fail
          /\ browser' = b
          /\ \E r \in {script(conversation, TRUE, url', b, fail1, NoEdit, fail2)} : Apply(r)

\* the user changes the role or the message of one turn in the form
EditTurn ==
    /\ run.form
    /\ \E edit \in Edits(conversation), fail2 \in AppPdfFails :
          /\ edit.value # conversation[edit.idx][IF edit.field = "role" THEN 1 ELSE 2]
          /\ \E r \in {script(conversation, FALSE, url, NoBrowser, NoPdf.fail, edit, fail2)} :
                Apply(r)
    /\ UNCHANGED <<url, browser>>

\* any other rerun, such as the one a click on a download button causes
Rerun ==
    /\ UNCHANGED url
    /\ browser' = NoBrowser
    /\ \E fail2 \in AppPdfFails :
          /\ ~Truthy(conversation) => fail2 = NoPdf.fail
          /\ \E r \in {script(conversation, FALSE, url, NoBrowser, NoPdf.fail, NoEdit, fail2)} :
                Apply(r)

Next == ExtractEmpty \/ ExtractInvalid \/ ExtractValid \/ EditTurn \/ Rerun

Spec == Init /\ [][Next]_vars

(***************************************************************************)
(* Properties of the script                                                *)
(***************************************************************************)
Differs(turn, original) == turn[1] # original[1] \/ turn[2] # original[2]

\* C4: each turn held in session state is flagged edited exactly if its role
\* or its message differs from what the extraction returned for it.
C4_EditedIffDiffersFromExtracted ==
    Truthy(conversation) =>
        \A i \in 1..Len(conversation) :
            conversation[i][3] <=> Differs(conversation[i], extracted[i])

\* C6: a click with a link the validator rejects reports the error, launches
\* no browser and leaves the held conversation as it was, flags included.
C6_InvalidLinkLeavesSessionUntouched ==
    [][run'.kind = "extract_invalid" =>
          /\ "error" \in {run'.reported[i] : i \in 1..Len(run'.reported)}
          /\ run'.launched = 0
          /\ conversation' = conversation]_vars

\* the turns of before at which after has another role or message
Changed(before, after) ==
    {i \in 1..Len(before) : after[i][1] # before[i][1] \/ after[i][2] # before[i][2]}

C10_Offers ==
    /\ (run.offered # {} \/ run.form) => Truthy(conversation)
    /\ run.kind = "extract_valid" =>
          /\ ~Truthy(extraction.result) =>
                (conversation = extraction.result /\ run.offered = {} /\ ~run.form)
          /\ Truthy(extraction.result) => Len(conversation) = Len(extraction.result)

C10_EditStep ==
    (run'.kind # "extract_valid" /\ Truthy(conversation)) =>
        /\ Len(conversation') = Len(conversation)
        /\ Cardinality(Changed(conversation, conversation')) <= 1

\* C10: the form and the downloads are offered only in a run that ends with a
\* non-empty conversation held; a click with a valid link replaces the held
\* conversation by what the extractor returned, so that after None or no turn
\* at all nothing is held and nothing offered; a run without such a click
\* keeps the number of turns and their order (at most the turn the user
\* edited differs).
C10_OfferedOnlyWithConversation ==
    []C10_Offers /\ [][C10_EditStep]_vars

\* a conversation was extracted, then an extraction failed: nothing is held
C10_Witness ==
    /\ run.kind = "extract_valid"
    /\ extraction.result = None
    /\ Truthy(extracted)
    /\ conversation = None
    /\ run.offered = {}

====
